---- MODULE Spec2Model ----
(***************************************************************************)
(* Seattle Councilmatic: representative lookup (reps/) and the             *)
(* recomputation of the is_current flags (sync_councilmatic).              *)
(*                                                                         *)
(* Tables:                                                                 *)
(*   opencivicdata_person      created_at[p]  (p is the person id)         *)
(*   opencivicdata_membership  membership     (pairs <<person, label>>)    *)
(*   councilmatic_core_person  cpRows, is_current                          *)
(*   reps_district             districts      (number -> geometry),        *)
(*                             district_name  (number -> name)             *)
(*   opencivicdata_personcontactdetail, opencivicdata_personlink            *)
(*                             contact_details[p], links[p], in the order  *)
(*                             the related managers hand them out          *)
(* Every cursor.execute is its own committed statement (Django autocommit; *)
(* neither the command nor the view opens a transaction).                  *)
(***************************************************************************)
EXTENDS Integers, Sequences, FiniteSets, TLC

VARIABLES created_at, membership, cpRows, is_current, districts, district_name,
          contact_details, links,
          syncPc, runs, firstResult, req, loader

vars == <<created_at, membership, cpRows, is_current, districts, district_name,
          contact_details, links,
          syncPc, runs, firstResult, req, loader>>

store == <<created_at, membership, cpRows, is_current, districts, district_name,
           contact_details, links>>

(***************************** bounds **************************************)
MaxPersons == 2
MaxRecords == 3
MaxRuns == 2
MaxPoint == 2
MaxAddrLen == 2
MaxDetails == 2
MaxFeatures == 2
MaxLoads == 2

Persons == 1..MaxPersons
Times == 1..MaxPersons
Points == 1..MaxPoint

(************************** options, sequences *****************************)
None == <<>>
Some(x) == <<x>>
Range(s) == {s[i] : i \in 1..Len(s)}
Min(a, b) == IF a < b THEN a ELSE b

(***************************** seat labels *********************************)
\* A district number is a CharField: a string of digits, here "1", "2", "10".
DistrictNumbers == {<<1>>, <<2>>, <<1, 0>>}

\* f"District {district_number}"
DistrictLabel(number) == [kind |-> "District", num |-> number]

PositionLabels == {[kind |-> "Position", num |-> <<i>>] : i \in 8..9}

SeatLabels == {DistrictLabel(n) : n \in DistrictNumbers} \cup PositionLabels

\* String comparison of two digit strings.
LexLess(a, b) ==
    \/ Len(a) < Len(b) /\ \A i \in 1..Len(a) : a[i] = b[i]
    \/ \E i \in 1..Min(Len(a), Len(b)) :
          a[i] < b[i] /\ \A j \in 1..(i - 1) : a[j] = b[j]

\* String comparison of two labels: "District ..." sorts before "Position ...".
LabelLess(a, b) ==
    \/ a.kind = "District" /\ b.kind = "Position"
    \/ a.kind = b.kind /\ LexLess(a.num, b.num)

\* m.label LIKE 'Position%'
IsPosition(label) == label.kind = "Position"

(********************** sync_people: the ranked person *********************)
HasRecords(label) == \E p \in Persons : <<p, label>> \in membership

Holders(label) == {p \in Persons : <<p, label>> \in membership}

\* ORDER BY p.created_at DESC, p.id DESC: p is ranked before q.
RankedBefore(p, q) ==
    \/ created_at[p] > created_at[q]
    \/ created_at[p] = created_at[q] /\ p > q

\* ROW_NUMBER() OVER (PARTITION BY m.label ORDER BY ...) = 1
RankedFirst(label) ==
    {p \in Holders(label) : \A q \in Holders(label) \ {p} : RankedBefore(p, q)}

\* SELECT person_id FROM ranked WHERE rn = 1
TopPersons == UNION {RankedFirst(l) : l \in SeatLabels}

\* The processes that run the management command.
Syncs == {"s1", "s2"}

InProgress(s) == syncPc[s] # "idle"

RECURSIVE SumRuns(_)
SumRuns(S) ==
    IF S = {} THEN 0
    ELSE LET s == CHOOSE x \in S : TRUE IN runs[s] + SumRuns(S \ {s})

\* Runs completed or under way.
Started == SumRuns(Syncs) + Cardinality({s \in Syncs : InProgress(s)})

ResetFlagsSkipped == is_current

\* UPDATE councilmatic_core_person SET is_current = FALSE
ResetFlags == {}

\* UPDATE councilmatic_core_person SET is_current = TRUE WHERE person_id IN (...)
MarkFlags == is_current \cup (cpRows \cap TopPersons)

\* INSERT ... WHERE rn = 1 AND person_id NOT IN (SELECT person_id FROM
\* councilmatic_core_person) ON CONFLICT (person_id) DO NOTHING
InsertedPersons == TopPersons \ cpRows

SyncReset(s) ==
    /\ syncPc[s] = "idle"
    /\ Started < MaxRuns
    /\ is_current' = ResetFlags
    /\ syncPc' = [syncPc EXCEPT ![s] = "mark"]
    /\ UNCHANGED <<created_at, membership, cpRows, districts, district_name,
                 contact_details, links, runs, firstResult, req, loader>>

SyncMark(s) ==
    /\ syncPc[s] = "mark"
    /\ is_current' = MarkFlags
    /\ syncPc' = [syncPc EXCEPT ![s] = "insert"]
    /\ UNCHANGED <<created_at, membership, cpRows, districts, district_name,
                 contact_details, links, runs, firstResult, req, loader>>

SyncInsert(s) ==
    /\ syncPc[s] = "insert"
    /\ cpRows' = cpRows \cup InsertedPersons
    /\ is_current' = is_current \cup InsertedPersons
    /\ syncPc' = [syncPc EXCEPT ![s] = "idle"]
    /\ runs' = [runs EXCEPT ![s] = @ + 1]
    /\ firstResult' = IF firstResult = None
                      THEN Some([rows |-> cpRows', current |-> is_current'])
                      ELSE firstResult
    /\ UNCHANGED <<created_at, membership, districts, district_name,
                 contact_details, links, req, loader>>

(***************************** request bodies ******************************)
\* Characters of an address: a blank, a letter, and "S" for an upper-case
\* letter of the word Seattle ("s" is its lower-case form).
Chars == {" ", "a", "S"}

AddrStrings == UNION {[1..n -> Chars] : n \in 0..MaxAddrLen}

\* The body of a POST: text that is no JSON, a JSON value that is no object
\* (array, string, number, null), or an object whose "address" member is
\* missing, is no string (number, null, list), or is a string.
Bodies ==
    {[json |-> "invalid", kind |-> "missing", text |-> <<>>],
     [json |-> "nonobject", kind |-> "missing", text |-> <<>>],
     [json |-> "object", kind |-> "missing", text |-> <<>>],
     [json |-> "object", kind |-> "nonstring", text |-> <<>>]}
    \cup {[json |-> "object", kind |-> "string", text |-> t] : t \in AddrStrings}

RECURSIVE StripLeft(_)
StripLeft(s) ==
    IF s # <<>> /\ Head(s) = " " THEN StripLeft(Tail(s)) ELSE s

RECURSIVE StripRight(_)
StripRight(s) ==
    IF s # <<>> /\ s[Len(s)] = " " THEN StripRight(SubSeq(s, 1, Len(s) - 1)) ELSE s

\* str.strip()
Strip(s) == StripRight(StripLeft(s))

\* str.lower()
Lower(s) == [i \in 1..Len(s) |-> IF s[i] = "S" THEN "s" ELSE s[i]]

\* "seattle" in address.lower()
MentionsSeattle(s) == \E i \in 1..Len(s) : Lower(s)[i] = "s"

\* address = f"{address}, Seattle, WA" unless the address names the city
GeocodeQuery(address) ==
    IF ~MentionsSeattle(address) THEN address \o <<",", " ", "S">> ELSE address

OK == 200
BadRequest == 400
NotFound == 404
ServerError == 500

\* data.get('address', '').strip() of a parsed object
AddressOf(body) == IF body.kind = "missing" THEN <<>> ELSE Strip(body.text)

\* lookup_reps up to the call of the service: the status answered at once,
\* or 0 when the lookup goes on.
ViewStatus(body) ==
    IF body.json = "invalid" THEN BadRequest            \* json.JSONDecodeError
    ELSE IF body.json = "nonobject" THEN ServerError    \* data.get: AttributeError
    ELSE IF body.kind = "nonstring" THEN ServerError    \* .strip(): AttributeError
    ELSE IF AddressOf(body) = <<>> THEN BadRequest      \* if not address
    ELSE 0

(***************************** geocoding ***********************************)
ProviderOutcomes == {"match", "nomatch", "timeout", "service_error"}

GeocodeResultEscalating(outcome, point) ==
    [raised |-> outcome = "service_error",
     value |-> IF outcome = "match" THEN Some(point) ELSE None]

\* geocode_address: the location, or None; GeocoderTimedOut and
\* GeocoderServiceError are caught.
GeocodeResult(outcome, point) ==
    [raised |-> FALSE,
     value |-> IF outcome = "match" THEN Some(point) ELSE None]

ProviderRequestsRetrying(outcome) == IF outcome = "timeout" THEN 2 ELSE 1

\* self.geolocator.geocode(address): called once
ProviderRequests(outcome) == 1

(************************** district lookup ********************************)
DbOutcomes == {"ok", "fail"}

\* District.objects.filter(geometry__contains=point)
Containing(point) == {n \in DOMAIN districts : point \in districts[n]}

FirstByNumberReversed(S) ==
    IF S = {} THEN None
    ELSE Some(CHOOSE n \in S : \A m \in S \ {n} : LexLess(m, n))

\* .first() of a queryset ordered by Meta.ordering = ['number']
FirstByNumber(S) ==
    IF S = {} THEN None
    ELSE Some(CHOOSE n \in S : \A m \in S \ {n} : LexLess(n, m))

\* find_district_by_coordinates: an exception of the query is caught and
\* None returned.
DistrictQueryResult(db, point) ==
    [raised |-> FALSE,
     value |-> IF db = "fail" THEN None ELSE FirstByNumber(Containing(point))]

(************************ representatives query ****************************)
\* SELECT DISTINCT p.name, m.role, m.label, p.id ... WHERE cp.is_current = TRUE
\*   AND (m.label = %s OR m.label LIKE 'Position%%')
RepRows(number) ==
    {[person |-> rec[1], label |-> rec[2]] : rec \in
        {m \in membership :
            /\ m[1] \in cpRows
            /\ m[1] \in is_current
            /\ (m[2] = DistrictLabel(number) \/ IsPosition(m[2]))}}

OrderedArbitrarily(S) ==
    {s \in [1..Cardinality(S) -> S] :
        \A i, j \in 1..Cardinality(S) : i # j => s[i] # s[j]}

\* ORDER BY m.label: every order of the rows that is sorted by label (the
\* order of rows with the same label is not determined).
OrderedByLabel(S) ==
    {s \in [1..Cardinality(S) -> S] :
        /\ \A i, j \in 1..Cardinality(S) : i # j => s[i] # s[j]
        /\ \A i, j \in 1..Cardinality(S) : i < j => ~LabelLess(s[j].label, s[i].label)}

(******************************* requests **********************************)
\* The requests served by the worker threads.
Requests == {"r1", "r2"}

IdleRequest ==
    [pc |-> "idle", body |-> [json |-> "invalid", kind |-> "missing", text |-> <<>>],
     address |-> <<>>, query |-> <<>>, geo |-> "none", location |-> None,
     district |-> None, rows |-> <<>>, reps |-> <<>>, status |-> 0,
     providerCalls |-> 0, districtQueries |-> 0,
     dbFailed |-> FALSE, repsFailed |-> FALSE, personFailed |-> FALSE,
     duringSync |-> FALSE, runsSeen |-> 0, printed |-> {}]

(***************************** server output *******************************)
\* geocode_address: print(f"Geocoding service error: {e}") for a
\* GeocoderServiceError, nothing for a timeout or for no match.
GeocodePrints(outcome) ==
    IF outcome = "service_error" THEN {"Geocoding service error"} ELSE {}

\* find_district_by_coordinates: print(f"Database error during district
\* lookup: {e}") for a failed query; nothing is written for the districts
\* the query finds or does not find.
DistrictPrints(db, found) ==
    IF db = "fail" THEN {"Database error during district lookup"} ELSE {}

\* lookup_reps: print(f"Error in lookup_reps: {e}") in `except Exception`
ViewPrints(code) == IF code = ServerError THEN {"Error in lookup_reps"} ELSE {}

Respond(r, code, fields) ==
    req' = [req EXCEPT ![r] = [f \in DOMAIN @ |->
              IF f = "pc" THEN "done"
              ELSE IF f = "status" THEN code
              ELSE IF f = "printed"
                   THEN (IF f \in DOMAIN fields THEN fields[f] ELSE @[f])
                        \cup ViewPrints(code)
              ELSE IF f \in DOMAIN fields THEN fields[f] ELSE @[f]]]

\* lookup_reps: parse and validate the body
Receive(r, bodies) ==
    /\ req[r].pc = "idle"
    /\ \E body \in bodies :
          IF ViewStatus(body) # 0
          THEN Respond(r, ViewStatus(body), [body |-> body])
          ELSE req' = [req EXCEPT ![r].pc = "geocode", ![r].body = body,
                                  ![r].address = AddressOf(body)]
    /\ UNCHANGED <<store, syncPc, runs, firstResult, loader>>

\* find_district_by_address: geocode_address, one blocking provider call
Geocode(r, outcomes) ==
    /\ req[r].pc = "geocode"
    /\ \E o \in outcomes : \E p \in (IF o = "match" THEN Points ELSE {1}) :
          LET res == GeocodeResult(o, p)
              seen == [query |-> GeocodeQuery(req[r].address), geo |-> o,
                       location |-> res.value,
                       providerCalls |-> req[r].providerCalls + ProviderRequests(o),
                       printed |-> req[r].printed \cup GeocodePrints(o)]
          IN  IF res.raised THEN Respond(r, ServerError, seen)
              ELSE IF res.value = None THEN Respond(r, NotFound, seen)
              ELSE req' = [req EXCEPT ![r].pc = "district",
                                      ![r].query = seen.query, ![r].geo = o,
                                      ![r].location = res.value,
                                      ![r].providerCalls = seen.providerCalls,
                                      ![r].printed = seen.printed]
    /\ UNCHANGED <<store, syncPc, runs, firstResult, loader>>

\* find_district_by_coordinates
FindDistrict(r, dbs) ==
    /\ req[r].pc = "district"
    /\ \E db \in dbs :
          LET res == DistrictQueryResult(db, req[r].location[1])
              seen == [district |-> res.value, dbFailed |-> db = "fail",
                       districtQueries |-> req[r].districtQueries + 1,
                       printed |-> req[r].printed
                                   \cup DistrictPrints(db, Containing(req[r].location[1]))]
          IN  IF res.raised THEN Respond(r, ServerError, seen)
              ELSE IF res.value = None THEN Respond(r, NotFound, seen)
              ELSE req' = [req EXCEPT ![r].pc = "reps",
                                      ![r].district = res.value,
                                      ![r].districtQueries = seen.districtQueries,
                                      ![r].printed = seen.printed]
    /\ UNCHANGED <<store, syncPc, runs, firstResult, loader>>

FlagsClearedByQuery == {}

\* The flags after the query: a SELECT reads cp.is_current and writes nothing.
FlagsAfterQuery == is_current

\* _get_representatives_for_district: the SELECT over the is_current flags
QueryReps(r, dbs) ==
    /\ req[r].pc = "reps"
    /\ \E db \in dbs :
          IF db = "fail"
          THEN Respond(r, ServerError, [repsFailed |-> TRUE])
          ELSE \E rows \in OrderedByLabel(RepRows(req[r].district[1])) :
                  req' = [req EXCEPT ![r].pc = "persons", ![r].rows = rows,
                            ![r].duringSync = \E s \in Syncs : InProgress(s),
                            ![r].runsSeen = SumRuns(Syncs)]
    /\ is_current' = FlagsAfterQuery
    /\ UNCHANGED <<created_at, membership, cpRows, districts, district_name,
                   contact_details, links, syncPc, runs, firstResult, loader>>

PersonReadStatusSwallowed(db) == OK

\* lookup_reps: an exception of OCDPerson.objects.get reaches `except
\* Exception`; without one the result is answered.
PersonReadStatus(db) == IF db = "fail" THEN ServerError ELSE OK

ResultStatusEmptyIsNotFound(rows) == IF rows = <<>> THEN NotFound ELSE OK

\* lookup_by_address returns a dict whenever a district was found, and
\* lookup_reps answers a dict with 200, whatever the representatives are.
ResultStatus(rows) == OK

(****************************** enrichment *********************************)
ContactTypes == {"email", "voice", "fax"}
ContactValues == {"v1", "v2"}
Contacts == [type : ContactTypes, value : ContactValues]

ProfileNote == "City Council profile"
LinkNotes == {ProfileNote, "other"}
LinkUrls == {"u1", "u2"}
Links == [note : LinkNotes, url : LinkUrls]

\* for contact in contact_details: if contact.type == type: rep_data[...] =
\* contact.value -- every matching contact assigns the key again.
RECURSIVE ContactValue(_, _, _)
ContactValue(contacts, type, sofar) ==
    IF contacts = <<>> THEN sofar
    ELSE ContactValue(Tail(contacts), type,
                      IF Head(contacts).type = type
                      THEN Some(Head(contacts).value) ELSE sofar)

\* for link in links: if link.note == 'City Council profile':
\* rep_data['profile_url'] = link.url
RECURSIVE ProfileUrl(_, _)
ProfileUrl(ls, sofar) ==
    IF ls = <<>> THEN sofar
    ELSE ProfileUrl(Tail(ls),
                    IF Head(ls).note = ProfileNote THEN Some(Head(ls).url) ELSE sofar)

\* rep_data of one row: a key that was never assigned is absent (None).
RepData(row) ==
    [person |-> row.person, label |-> row.label,
     email |-> ContactValue(contact_details[row.person], "email", None),
     phone |-> ContactValue(contact_details[row.person], "voice", None),
     profile_url |-> ProfileUrl(links[row.person], None)]

\* _get_representatives_for_district: OCDPerson.objects.get and the contact
\* details and links for every row, then the response of lookup_reps
ReadPersons(r, dbs) ==
    /\ req[r].pc = "persons"
    /\ \E db \in (IF req[r].rows = <<>> THEN {"ok"} ELSE dbs) :
          Respond(r, IF PersonReadStatus(db) = OK THEN ResultStatus(req[r].rows)
                     ELSE PersonReadStatus(db),
                  [personFailed |-> db = "fail",
                   reps |-> IF db = "fail" THEN <<>>
                            ELSE [i \in 1..Len(req[r].rows) |-> RepData(req[r].rows[i])]])
    /\ UNCHANGED <<store, syncPc, runs, firstResult, loader>>

(***************************** load_districts ******************************)
\* feature["properties"]["COUNCIL_DIST"] of the features of districts.geojson
FeatureNumbers == {1, 2, 10}

\* feature["geometry"]: the points it covers
Geometries == {{1}, {MaxPoint}}

\* A feature of the collection; one without COUNCIL_DIST or with a geometry
\* GEOSGeometry rejects is not valid.
Features ==
    [num : FeatureNumbers, geom : Geometries, valid : {TRUE}]
    \cup {[num |-> 1, geom |-> {}, valid |-> FALSE]}

FeatureCollections == UNION {[1..n -> Features] : n \in 0..MaxFeatures}

\* str(district_num): the decimal digits
RECURSIVE Str(_)
Str(n) == IF n < 10 THEN <<n>> ELSE Str(n \div 10) \o <<n % 10>>

\* district_name = f"District {district_num}"
DistrictName(num) == [kind |-> "District", num |-> Str(num)]

GetOrCreate(table, key, value) ==
    IF key \in DOMAIN table THEN table
    ELSE [k \in DOMAIN table \cup {key} |-> IF k = key THEN value ELSE table[k]]

\* District.objects.update_or_create(number=key, defaults={...}): one column
\* of the row with that number, updated if the row exists, created if not.
UpdateOrCreate(table, key, value) ==
    [k \in DOMAIN table \cup {key} |-> IF k = key THEN value ELSE table[k]]

\* The command between runs. file is the collection of the last run that
\* found one, loaded the geometry of the last feature handled per number,
\* rerun tells that this run reads the collection the run before read, and
\* before is the table that run left.
IdleLoader ==
    [pc |-> "idle", file |-> <<>>, pending |-> <<>>, runs |-> 0,
     loaded |-> <<>>, rerun |-> FALSE, before |-> <<>>]

\* handle: if not geojson_path.exists(): return
LoadMissing ==
    /\ loader.pc = "idle"
    /\ loader.runs < MaxLoads
    /\ loader' = [loader EXCEPT !.runs = @ + 1, !.rerun = FALSE, !.before = <<>>]
    /\ UNCHANGED <<store, syncPc, runs, firstResult, req>>

\* handle: geojson_data = json.load(f)
LoadStart(files) ==
    /\ loader.pc = "idle"
    /\ loader.runs < MaxLoads
    /\ \E f \in files :
          LET again == loader.runs > 0 /\ f = loader.file
          IN  loader' = [loader EXCEPT !.pc = "loading", !.file = f, !.pending = f,
                                       !.rerun = again,
                                       !.before = IF again
                                                  THEN <<districts, district_name>>
                                                  ELSE <<>>]
    /\ UNCHANGED <<store, syncPc, runs, firstResult, req>>

\* handle: one round of `for feature in geojson_data["features"]`; an
\* exception ends the command, the rows written so far stay.
LoadFeature ==
    /\ loader.pc = "loading"
    /\ loader.pending # <<>>
    /\ LET feature == Head(loader.pending)
           number == Str(feature.num)
       IN  IF ~feature.valid
           THEN /\ loader' = [loader EXCEPT !.pc = "idle", !.pending = <<>>,
                                            !.runs = @ + 1]
                /\ UNCHANGED <<districts, district_name>>
           ELSE /\ districts' = UpdateOrCreate(districts, number, feature.geom)
                /\ district_name' =
                       UpdateOrCreate(district_name, number, DistrictName(feature.num))
                /\ loader' = [loader EXCEPT
                       !.pending = Tail(@),
                       !.loaded = [k \in DOMAIN @ \cup {number} |->
                                     IF k = number THEN feature.geom ELSE @[k]]]
    /\ UNCHANGED <<created_at, membership, cpRows, is_current, contact_details, links,
                   syncPc, runs, firstResult, req>>

\* handle: the summary after the loop
LoadFinish ==
    /\ loader.pc = "loading"
    /\ loader.pending = <<>>
    /\ loader' = [loader EXCEPT !.pc = "idle", !.runs = @ + 1]
    /\ UNCHANGED <<store, syncPc, runs, firstResult, req>>

(***************************** specifications ******************************)
InitRecords ==
    /\ created_at \in [Persons -> Times]
    /\ membership \in {m \in SUBSET (Persons \X SeatLabels) : Cardinality(m) <= MaxRecords}

\* Any rows and flags: left by earlier runs over earlier records.
InitFlagsAny ==
    /\ cpRows \in SUBSET Persons
    /\ is_current \in SUBSET cpRows

\* The rows and flags a completed sync_people leaves.
InitFlagsSynced ==
    /\ cpRows \in {R \in SUBSET Persons : TopPersons \subseteq R}
    /\ is_current = TopPersons

\* Districts 1 and 2 loaded, each over its own point.
InitDistrictsLoaded ==
    /\ districts = (<<1>> :> {1}) @@ (<<2>> :> {MaxPoint})
    /\ district_name = [n \in DOMAIN districts |-> DistrictLabel(n)]

\* Any loaded rows: at most one per number, geometries overlapping or not.
InitDistrictsAny ==
    /\ districts \in UNION {[D -> SUBSET Points] : D \in SUBSET DistrictNumbers}
    /\ district_name = [n \in DOMAIN districts |-> DistrictLabel(n)]

\* The table before the first load_districts.
InitDistrictsEmpty ==
    /\ districts = <<>>
    /\ district_name = <<>>

\* Two persons, one holding District 1 and one Position 8, synced.
InitRecordsSeated ==
    /\ created_at = [p \in Persons |-> 1]
    /\ membership = {<<1, DistrictLabel(<<1>>)>>,
                     <<MaxPersons, [kind |-> "Position", num |-> <<8>>]>>}
    /\ cpRows = TopPersons
    /\ is_current = TopPersons

\* No person, no membership yet: the scraper has not run.
InitRecordsNone ==
    /\ created_at = [p \in Persons |-> 1]
    /\ membership = {}
    /\ cpRows = {}
    /\ is_current = {}

\* No contact detail and no link stored.
InitDetailsNone ==
    /\ contact_details = [p \in Persons |-> <<>>]
    /\ links = [p \in Persons |-> <<>>]

\* Person 1 with any contact details and links, in any order.
InitDetailsAny ==
    /\ \E cs \in UNION {[1..n -> Contacts] : n \in 0..MaxDetails} :
          contact_details = [p \in Persons |-> IF p = 1 THEN cs ELSE <<>>]
    /\ \E ls \in UNION {[1..n -> Links] : n \in 0..MaxDetails} :
          links = [p \in Persons |-> IF p = 1 THEN ls ELSE <<>>]

InitProcesses ==
    /\ syncPc = [s \in Syncs |-> "idle"]
    /\ runs = [s \in Syncs |-> 0]
    /\ firstResult = None
    /\ req = [r \in Requests |-> IdleRequest]
    /\ loader = IdleLoader

\* A body with an address, a provider that answers, a database that works.
PlainBodies == {[json |-> "object", kind |-> "string", text |-> <<"a">>]}

\* The command run by two processes while one request is served.
Init ==
    InitRecords /\ InitFlagsSynced /\ InitDistrictsLoaded /\ InitDetailsNone /\ InitProcesses

Next ==
    \/ \E s \in Syncs : SyncReset(s)
    \/ \E s \in Syncs : SyncMark(s)
    \/ \E s \in Syncs : SyncInsert(s)
    \/ Receive("r1", PlainBodies)
    \/ Geocode("r1", {"match"})
    \/ FindDistrict("r1", {"ok"})
    \/ QueryReps("r1", {"ok"})
    \/ ReadPersons("r1", {"ok"})

Spec == Init /\ [][Next]_vars

\* The command run again and again by one process, from any flags.
InitRecompute ==
    InitRecords /\ InitFlagsAny /\ InitDistrictsLoaded /\ InitDetailsNone /\ InitProcesses

NextRecompute == SyncReset("s1") \/ SyncMark("s1") \/ SyncInsert("s1")

SpecRecompute == InitRecompute /\ [][NextRecompute]_vars

\* One request with any body, any provider outcome and any database outcome,
\* over any loaded districts.
InitLookup ==
    /\ InitRecordsSeated \/ InitRecordsNone
    /\ InitDistrictsAny /\ InitDetailsNone /\ InitProcesses

NextLookup ==
    \/ Receive("r1", Bodies)
    \/ Geocode("r1", ProviderOutcomes)
    \/ FindDistrict("r1", DbOutcomes)
    \/ QueryReps("r1", DbOutcomes)
    \/ ReadPersons("r1", DbOutcomes)

SpecLookup == InitLookup /\ [][NextLookup]_vars

\* One request on the happy path over any records, synced, and no command
\* running: the rows of the representatives query.
InitReps ==
    InitRecords /\ InitFlagsSynced /\ InitDistrictsLoaded /\ InitDetailsNone /\ InitProcesses

NextReps ==
    \/ Receive("r1", PlainBodies)
    \/ Geocode("r1", {"match"})
    \/ FindDistrict("r1", {"ok"})
    \/ QueryReps("r1", {"ok"})
    \/ ReadPersons("r1", {"ok"})

SpecReps == InitReps /\ [][NextReps]_vars

\* One request on the happy path for the seated persons, person 1 with any
\* contact details and links.
InitEnrich ==
    InitRecordsSeated /\ InitDistrictsLoaded /\ InitDetailsAny /\ InitProcesses

NextEnrich ==
    \/ Receive("r1", PlainBodies)
    \/ Geocode("r1", {"match"})
    \/ FindDistrict("r1", {"ok"})
    \/ QueryReps("r1", {"ok"})
    \/ ReadPersons("r1", {"ok"})

SpecEnrich == InitEnrich /\ [][NextEnrich]_vars

\* Two requests served at once by two worker threads, with any body, any
\* provider outcome and any database outcome, over the loaded districts.
InitConcurrent ==
    InitRecordsSeated /\ InitDistrictsLoaded /\ InitDetailsNone /\ InitProcesses

NextConcurrent ==
    \/ \E r \in Requests : Receive(r, Bodies)
    \/ \E r \in Requests : Geocode(r, ProviderOutcomes)
    \/ \E r \in Requests : FindDistrict(r, DbOutcomes)
    \/ \E r \in Requests : QueryReps(r, DbOutcomes)
    \/ \E r \in Requests : ReadPersons(r, DbOutcomes)

SpecConcurrent == InitConcurrent /\ [][NextConcurrent]_vars

\* load_districts run again and again over any feature collections, from
\* the empty table.
InitLoad ==
    InitRecordsNone /\ InitDistrictsEmpty /\ InitDetailsNone /\ InitProcesses

NextLoad ==
    \/ LoadMissing
    \/ LoadStart(FeatureCollections)
    \/ LoadFeature
    \/ LoadFinish

SpecLoad == InitLoad /\ [][NextLoad]_vars

(******************************* claims ************************************)
\* The labels a lookup of a district asks for: its own seat and the at-large seats.
AskedLabels(number) == {DistrictLabel(number)} \cup PositionLabels

\* The holder of a label with the maximal (created_at, id) pair.
LatestHolder(label) ==
    CHOOSE p \in Holders(label) : \A q \in Holders(label) \ {p} :
        \/ created_at[q] < created_at[p]
        \/ created_at[q] = created_at[p] /\ q < p

\* The rows of a request that name a label.
RowsOf(r, label) == {i \in 1..Len(req[r].rows) : req[r].rows[i].label = label}

\* The request has run its representatives query.
Queried(r) == req[r].district # None /\ req[r].pc \in {"persons", "done"} /\ ~req[r].repsFailed

\* C1: a lookup whose representatives query ran while sync_people was under way
\* saw, for every label it asked for that has records, exactly one current
\* occupant (never zero, never several).
C1_AtomicSwitch ==
    \A r \in Requests :
        (Queried(r) /\ req[r].duringSync) =>
            \A l \in AskedLabels(req[r].district[1]) :
                HasRecords(l) => Cardinality(RowsOf(r, l)) = 1

\* C2: after a completed sync_people, every label with records has exactly one
\* record whose person is flagged current, the one with the maximal
\* (created_at, id) pair.
C2_ExactlyOneLatest ==
    (syncPc["s1"] = "idle" /\ runs["s1"] >= 1) =>
        \A l \in SeatLabels :
            HasRecords(l) =>
                {p \in Holders(l) : p \in cpRows /\ p \in is_current} = {LatestHolder(l)}

\* C3: every completed sync_people over unchanged records leaves the rows and
\* flags the first completed run left, and the flags are those of the ranked
\* persons of the records, whatever the flags were before.
C3_Idempotent ==
    (syncPc["s1"] = "idle" /\ runs["s1"] >= 1) =>
        /\ firstResult = Some([rows |-> cpRows, current |-> is_current])
        /\ is_current = UNION {{LatestHolder(l)} : l \in {k \in SeatLabels : HasRecords(k)}}

\* C3 witness: a second run has completed, leaving one person flagged and the
\* row of a former person, which was there before the first run, unflagged.
C3_Witness ==
    /\ syncPc["s1"] = "idle" /\ runs["s1"] >= 2
    /\ is_current # {} /\ cpRows \ is_current # {}

\* C4: at most one sync_people run is under way at any time, and when no run is
\* under way the flags are those of a serial execution.
C4_MutualExclusion ==
    /\ Cardinality({s \in Syncs : InProgress(s)}) <= 1
    /\ (SumRuns(Syncs) >= 1 /\ \A s \in Syncs : ~InProgress(s)) => is_current = TopPersons

\* C5: a lookup whose representatives query ran after a completed sync_people,
\* with no run under way, returns exactly one row for every label it asked for
\* that has records, naming the label's latest holder, and no other row.
C5_OneRowPerLabel ==
    \A r \in Requests :
        (Queried(r) /\ ~req[r].duringSync /\ req[r].runsSeen >= 1) =>
            /\ Range(req[r].rows) =
                 {[person |-> LatestHolder(l), label |-> l] :
                     l \in {k \in AskedLabels(req[r].district[1]) : HasRecords(k)}}
            /\ \A l \in SeatLabels : Cardinality(RowsOf(r, l)) <= 1

\* An address that is missing, empty, blank or malformed.
InvalidInput(body) ==
    \/ body.json # "object"
    \/ body.kind # "string"
    \/ \A i \in 1..Len(body.text) : body.text[i] = " "

\* C6: a request with an invalid address is answered 400 and issues neither a
\* geocode call nor a district query.
C6_InvalidRejected ==
    \A r \in Requests :
        (req[r].pc # "idle" /\ InvalidInput(req[r].body)) =>
            /\ req[r].pc = "done"
            /\ req[r].status = BadRequest
            /\ req[r].providerCalls = 0
            /\ req[r].districtQueries = 0

\* C7: when the provider finds no match, times out or fails, geocode_address
\* returns None without raising and the lookup is answered 404.
C7_GeocodeNeverEscalates ==
    \A r \in Requests :
        req[r].geo \in {"nomatch", "timeout", "service_error"} =>
            /\ req[r].location = None
            /\ req[r].pc = "done"
            /\ req[r].status = NotFound

\* C7 witness: a provider-side service error was answered 404.
C7_Witness ==
    \E r \in Requests : req[r].geo = "service_error" /\ req[r].status = NotFound

\* C8: a lookup issues at most one request to the geocoding provider, exactly
\* one once geocode_address has been called, also after a timeout or an error.
C8_NoRetry ==
    \A r \in Requests :
        /\ req[r].providerCalls <= 1
        /\ req[r].geo # "none" => req[r].providerCalls = 1

\* C8 witness: a lookup whose provider call timed out has ended with one call.
C8_Witness ==
    \E r \in Requests :
        req[r].geo = "timeout" /\ req[r].pc = "done" /\ req[r].providerCalls = 1

\* The districts whose stored geometry contains the point of a request.
ContainingOf(r) == {n \in DOMAIN districts : req[r].location[1] \in districts[n]}

\* C9: when the containment query has run, the district found is None if no
\* stored district contains the point, and otherwise a containing district whose
\* number sorts before the number of every other containing district.
C9_SmallestContaining ==
    \A r \in Requests :
        (req[r].districtQueries = 1 /\ ~req[r].dbFailed) =>
            /\ ContainingOf(r) = {} => (req[r].district = None /\ req[r].status = NotFound)
            /\ ContainingOf(r) # {} =>
                 /\ req[r].district # None
                 /\ req[r].district[1] \in ContainingOf(r)
                 /\ \A m \in ContainingOf(r) \ {req[r].district[1]} :
                        LexLess(req[r].district[1], m)

\* C9 witness: districts "2" and "10" both contain the point and "10" was found.
C9_Witness ==
    \E r \in Requests :
        /\ req[r].districtQueries = 1 /\ ~req[r].dbFailed
        /\ {<<2>>, <<1, 0>>} \subseteq ContainingOf(r)
        /\ <<1>> \notin ContainingOf(r)
        /\ req[r].district = Some(<<1, 0>>)

\* C10 as claimed: a lookup whose containment query failed or whose Person
\* read failed is answered 500.
C10_FailuresAre500 ==
    \A r \in Requests :
        (req[r].pc = "done" /\ (req[r].dbFailed \/ req[r].personFailed)) =>
            req[r].status = ServerError

\* C10: a lookup whose Person read failed is answered 500; a lookup whose
\* containment query failed is answered 404.
C10_PersonReadIs500 ==
    \A r \in Requests :
        req[r].pc = "done" =>
            /\ req[r].personFailed => req[r].status = ServerError
            /\ req[r].dbFailed => req[r].status = NotFound

\* C10 witness: a Person read failed and the lookup was answered 500.
C10_Witness ==
    \E r \in Requests :
        req[r].pc = "done" /\ req[r].personFailed /\ req[r].status = ServerError

\* The request has passed validation and has ended, and neither the
\* representatives query nor a Person read has failed.
Served(r) ==
    /\ req[r].pc = "done" /\ req[r].geo # "none"
    /\ ~req[r].repsFailed /\ ~req[r].personFailed

SeatRank(label) == IF label.kind = "District" THEN 0 ELSE label.num[1]

MatchingContacts(p, type) ==
    {i \in 1..Len(contact_details[p]) : contact_details[p][i].type = type}

MatchingLinks(p) == {i \in 1..Len(links[p]) : links[p][i].note = ProfileNote}

FirstOf(S) == CHOOSE i \in S : \A j \in S : i <= j

\* C13: every representative of a result carries the value of the person's
\* first contact of type "email" as email, of the first contact of type
\* "voice" as phone, and the url of the first link with the profile note as
\* profile_url; a key is absent exactly when nothing matches.
C13_FirstMatchWins ==
    \A r \in Requests :
        req[r].pc = "done" /\ req[r].status = OK =>
            \A i \in 1..Len(req[r].reps) :
                LET rep == req[r].reps[i]
                    p == rep.person
                    emails == MatchingContacts(p, "email")
                    voices == MatchingContacts(p, "voice")
                    profiles == MatchingLinks(p)
                IN  /\ rep.email = None <=> emails = {}
                    /\ rep.phone = None <=> voices = {}
                    /\ rep.profile_url = None <=> profiles = {}
                    /\ emails # {} =>
                          rep.email = Some(contact_details[p][FirstOf(emails)].value)
                    /\ voices # {} =>
                          rep.phone = Some(contact_details[p][FirstOf(voices)].value)
                    /\ profiles # {} =>
                          rep.profile_url = Some(links[p][FirstOf(profiles)].url)

\* The status of a lookup run alone on the stored data, for the body it
\* received and the outcomes its provider call and its queries met.
SerialStatus(r) ==
    IF ViewStatus(req[r].body) # 0 THEN ViewStatus(req[r].body)
    ELSE IF req[r].geo # "match" THEN NotFound
    ELSE IF req[r].dbFailed \/ Containing(req[r].location[1]) = {} THEN NotFound
    ELSE IF req[r].repsFailed \/ req[r].personFailed THEN ServerError
    ELSE OK

\* The answer of a finished lookup is the answer of a lookup run alone.
SerialResult(r) ==
    req[r].pc = "done" =>
        /\ req[r].status = SerialStatus(r)
        /\ req[r].status = OK =>
              /\ req[r].district = FirstByNumber(Containing(req[r].location[1]))
              /\ Range(req[r].rows) = RepRows(req[r].district[1])
              /\ req[r].reps = [i \in 1..Len(req[r].rows) |-> RepData(req[r].rows[i])]

\* C14: no step of a lookup, whatever its outcome, changes the stored
\* districts, records, persons or flags, and every lookup that has finished,
\* however the steps of the lookups were interleaved, carries the answer of a
\* lookup run alone on the stored data.
C14_ReadOnly ==
    [][/\ store' = store
       /\ \A r \in Requests : SerialResult(r)']_vars

\* C14 witness: request r1 ran its query and finished with both
\* representatives while request r2, which had run its query before, was
\* still reading its persons.
C14_Witness ==
    /\ req["r1"].pc = "done" /\ req["r1"].status = OK /\ Len(req["r1"].reps) = 2
    /\ req["r2"].pc = "persons" /\ Len(req["r2"].rows) = 2

\* C15: a lookup whose containment query ran and found two or more districts
\* containing the point has written a warning and carries the district first
\* by number; one whose query found no district for a geocoded point has
\* written a message, which a lookup whose geocoding failed has not; in both
\* cases the lookup, unless a later query fails, is answered 200 or 404.
C15_AnomaliesLogged ==
    \A r \in Requests :
        (req[r].districtQueries = 1 /\ ~req[r].dbFailed) =>
            /\ Cardinality(ContainingOf(r)) >= 2 =>
                  /\ req[r].printed # {}
                  /\ req[r].district = FirstByNumber(ContainingOf(r))
            /\ ContainingOf(r) = {} =>
                  /\ req[r].printed # {}
                  /\ req[r].printed \cap UNION {GeocodePrints(o) : o \in ProviderOutcomes} = {}
            /\ (Served(r) /\ Cardinality(ContainingOf(r)) # 1) =>
                  req[r].status \in {OK, NotFound}

\* C16: whatever was loaded, the table holds one row for every number a
\* feature was loaded for and no other row (a number is the key of its row),
\* each row with the geometry of the last feature loaded for the number and
\* the name of that number; and a run over the collection the run before
\* read ends with the rows (number, name, geometry) that run left.
C16_Upsert ==
    /\ DOMAIN districts = DOMAIN loader.loaded
    /\ DOMAIN district_name = DOMAIN districts
    /\ \A n \in DOMAIN districts :
          /\ districts[n] = loader.loaded[n]
          /\ district_name[n] = DistrictLabel(n)
    /\ (loader.pc = "idle" /\ loader.rerun) =>
          <<districts, district_name>> = loader.before

\* C16 witness: a collection with two features for number 10 and different
\* geometries was loaded twice; the row of "10" has the second geometry.
C16_Witness ==
    /\ loader.pc = "idle" /\ loader.rerun /\ loader.runs = 2
    /\ Len(loader.file) = 2
    /\ loader.file[1].num = 10 /\ loader.file[2].num = 10
    /\ loader.file[1].geom = {1} /\ loader.file[2].geom = {MaxPoint}
    /\ DOMAIN districts = {<<1, 0>>}
    /\ districts[<<1, 0>>] = {MaxPoint}
====
